---------------------------- MODULE Spec2Model ----------------------------
(*************************************************************************)
(* Kalkulator client-server: the server side of src/server.py.           *)
(*                                                                       *)
(*   CalculationEngine  - the pure arithmetic engine (operators below)   *)
(*   CalculatorServer   - start/stop (the accept loop) and               *)
(*                        _handle_client (one thread per connection)     *)
(*                                                                       *)
(* Python values that json.loads can return are modelled as tagged       *)
(* records; numbers in requests are integers, results are integers or    *)
(* decimals with ten fractional digits (what round(x, 10) keeps).        *)
(*************************************************************************)
EXTENDS Integers, Sequences, FiniteSets, TLC

(*************************************************************************)
(* Bounds of the model.                                                  *)
(*************************************************************************)
\* number of client connections that may ever be attempted
NumConns == 2
\* total number of request messages the clients send, over all connections
MaxSends == 2

\* listen(5): the backlog of the listening socket
Backlog == 5
\* round(result, 10)
Precision == 10

Conns == 1..NumConns

\* calls of NetworkClient.send_calculation in one behaviour
MaxCalls == 3
\* the sockets the client creates, numbered in the order of creation: a
\* call creates at most one
Sockets == 1..MaxCalls

(*************************************************************************)
(* Python values (the result of json.loads).                             *)
(*************************************************************************)
JNum(n)   == [t |-> "num", n |-> n]
JStr(s)   == [t |-> "str", s |-> s]
JBool(b)  == [t |-> "bool", b |-> b]
JNull     == [t |-> "null"]
JArr(xs)  == [t |-> "arr", items |-> xs]
\* members: a sequence of [key, val] records, in document order
JObj(ms)  == [t |-> "obj", members |-> ms]
Member(k, v) == [key |-> k, val |-> v]

\* dict.get(key, default): the last member with that key wins in json.loads
RECURSIVE DictGet(_, _, _)
DictGet(ms, key, default) ==
    IF ms = <<>> THEN default
    ELSE LET last == ms[Len(ms)] IN
         IF last.key = key THEN last.val
         ELSE DictGet(SubSeq(ms, 1, Len(ms) - 1), key, default)

\* the keys of a dict, without duplicates
DictKeys(ms) == {ms[i].key : i \in 1..Len(ms)}

(*************************************************************************)
(* Outcomes of a Python expression: a value or a raised exception.       *)
(*************************************************************************)
Val(v)        == [exc |-> "none", val |-> v]
Raise(cls, m) == [exc |-> cls, msg |-> m]

\* the characters of the strings the model uses as an "args" value
Chars(s) ==
    CASE s = "23" -> <<"2", "3">>
      [] s = "ab" -> <<"a", "b">>
      [] OTHER    -> <<>>

\* float(s) for a string s: the numeric strings the model uses
FloatOfStr(s) ==
    CASE s = "2"  -> Val(2)
      [] s = "3"  -> Val(3)
      [] s = "23" -> Val(23)
      [] OTHER    -> Raise("ValueError",
                           "could not convert string to float: '" \o s \o "'")

\* len(args)
PyLen(v) ==
    CASE v.t = "arr" -> Val(Len(v.items))
      [] v.t = "str" -> Val(Len(v.s))
      [] v.t = "obj" -> Val(Cardinality(DictKeys(v.members)))
      [] OTHER       -> Raise("TypeError", "object has no len()")

\* args[i], i counted from 0 as in the source
PyIndex(v, i) ==
    CASE v.t = "arr" -> Val(v.items[i + 1])
      [] v.t = "str" -> Val(JStr(Chars(v.s)[i + 1]))
      [] OTHER       -> Raise("KeyError", ToString(i))

\* float(x)
PyFloat(v) ==
    CASE v.t = "num"  -> Val(v.n)
      [] v.t = "bool" -> Val(IF v.b THEN 1 ELSE 0)
      [] v.t = "str"  -> FloatOfStr(v.s)
      [] OTHER        -> Raise("TypeError",
                               "float() argument must be a string or a real number")

\* str(x) as the f-string of the unknown-operation message formats it
PyStr(v) ==
    CASE v.t = "str"  -> v.s
      [] v.t = "num"  -> ToString(v.n)
      [] v.t = "bool" -> IF v.b THEN "True" ELSE "False"
      [] v.t = "null" -> "None"
      [] OTHER        -> "?"

Hashable(v) == v.t \notin {"arr", "obj"}

(*************************************************************************)
(* CalculationEngine: the four operations on exact rationals num/den.    *)
(*************************************************************************)
Rat(n, d) == [num |-> n, den |-> d]

add(a, b)      == Val(Rat(a + b, 1))
subtract(a, b) == Val(Rat(a - b, 1))
multiply(a, b) == Val(Rat(a * b, 1))
\* divide without its test of b: the division itself raises
divide_unguarded(a, b) ==
    IF b = 0
    THEN Raise("ZeroDivisionError", "float division by zero")
    ELSE Val(Rat(a, b))

divide(a, b) ==
    IF b = 0
    THEN Raise("ValueError", "Pembagian dengan nol tidak diperbolehkan!")
    ELSE Val(Rat(a, b))

OperationNames == {"add", "sub", "mul", "div"}

operations_map(name, a, b) ==
    CASE name = "add" -> add(a, b)
      [] name = "sub" -> subtract(a, b)
      [] name = "mul" -> multiply(a, b)
      [] name = "div" -> divide(a, b)

Abs(n) == IF n < 0 THEN -n ELSE n

\* the first k decimal digits of r/d, 0 <= r < d
RECURSIVE FracDigits(_, _, _)
FracDigits(r, d, k) ==
    IF k = 0 THEN <<>>
    ELSE <<(r * 10) \div d>> \o FracDigits((r * 10) % d, d, k - 1)

\* what is left of r/d after its first k decimal digits, as a numerator over d
RECURSIVE FracRem(_, _, _)
FracRem(r, d, k) ==
    IF k = 0 THEN r ELSE FracRem((r * 10) % d, d, k - 1)

\* add one unit in the last place; the result is <<carry, digits>>
RECURSIVE Increment(_)
Increment(ds) ==
    IF ds = <<>> THEN <<1, <<>>>>
    ELSE LET n    == Len(ds)
             last == ds[n]
         IN  IF last < 9
             THEN <<0, SubSeq(ds, 1, n - 1) \o <<last + 1>>>>
             ELSE LET rest == Increment(SubSeq(ds, 1, n - 1))
                  IN  <<rest[1], rest[2] \o <<0>>>>

\* Round10 that cuts the decimals off after the tenth instead of rounding
Round10_truncate(q) ==
    LET n == Abs(q.num)
        d == Abs(q.den)
    IN  [t |-> "float", neg |-> (q.num < 0) # (q.den < 0), ip |-> n \div d,
         frac |-> FracDigits(n % d, d, Precision)]

\* round(q, 10) of a non-integral q: sign, integer part, ten digits; a
\* value exactly half way between two neighbours goes to the even one
Round10(q) ==
    LET n      == Abs(q.num)
        d      == Abs(q.den)
        neg    == (q.num < 0) # (q.den < 0)
        ds     == FracDigits(n % d, d, Precision + 1)
        kept   == SubSeq(ds, 1, Precision)
        rest   == FracRem(n % d, d, Precision + 1)
        up     == \/ ds[Precision + 1] > 5
                  \/ /\ ds[Precision + 1] = 5
                     /\ (rest # 0 \/ kept[Precision] % 2 = 1)
        bumped == IF up THEN Increment(kept) ELSE <<0, kept>>
    IN  [t |-> "float", neg |-> neg, ip |-> (n \div d) + bumped[1],
         frac |-> bumped[2]]

\* int(result) when result == int(result)
IntResult(q) ==
    LET n == Abs(q.num) \div Abs(q.den)
    IN  [t |-> "int", n |-> IF (q.num < 0) # (q.den < 0) THEN -n ELSE n]

\* lines 132-136: integral results as int, others rounded
FormatResult(q) ==
    IF Abs(q.num) % Abs(q.den) = 0 THEN IntResult(q) ELSE Round10(q)

Success(r) == [status |-> "success", result |-> r]
\* Failure that fills a result field as well
Failure_with_result(m) ==
    [status |-> "error", message |-> m, result |-> [t |-> "null"]]
Failure(m) == [status |-> "error", message |-> m]

\* CalcExcept with the clause for ValueError only: any other exception
\* leaves calculate
CalcExcept_value_error_only(o) ==
    IF o.exc = "ValueError" THEN Val(Failure(o.msg)) ELSE o

\* CalcExcept without the except clauses: the exception leaves calculate
CalcExcept_reraise(o) == o

\* the two except clauses of calculate (lines 143-154)
CalcExcept(o) ==
    IF o.exc = "ValueError" THEN Val(Failure(o.msg))
    ELSE Val(Failure("Terjadi kesalahan: " \o o.msg))

\* calculate that indexes operations_map without asking first whether the
\* operation is in it: the KeyError goes to the general except clause
calculate_lookup_unchecked(operation, args) ==
    LET n == PyLen(args) IN
    IF n.exc # "none" THEN CalcExcept(n)
    ELSE IF n.val # 2 THEN Val(Failure("Diperlukan tepat 2 argumen!"))
    ELSE
    LET x0 == PyIndex(args, 0) IN
    IF x0.exc # "none" THEN CalcExcept(x0)
    ELSE
    LET a == PyFloat(x0.val) IN
    IF a.exc # "none" THEN CalcExcept(a)
    ELSE
    LET b == PyFloat(PyIndex(args, 1).val) IN
    IF b.exc # "none" THEN CalcExcept(b)
    ELSE IF ~Hashable(operation)
         THEN CalcExcept(Raise("TypeError", "unhashable type"))
    ELSE IF operation.t # "str" \/ operation.s \notin OperationNames
         THEN CalcExcept(Raise("KeyError", "'" \o PyStr(operation) \o "'"))
    ELSE
    LET r == operations_map(operation.s, a.val, b.val) IN
    IF r.exc # "none" THEN CalcExcept(r)
    ELSE Val(Success(FormatResult(r.val)))

\* calculate that looks the operation up before it counts the arguments
calculate_operation_first(operation, args) ==
    IF ~Hashable(operation)
    THEN CalcExcept(Raise("TypeError", "unhashable type"))
    ELSE IF operation.t # "str" \/ operation.s \notin OperationNames
         THEN Val(Failure("Operasi '" \o PyStr(operation) \o "' tidak dikenal!"))
    ELSE
    LET n == PyLen(args) IN
    IF n.exc # "none" THEN CalcExcept(n)
    ELSE IF n.val # 2 THEN Val(Failure("Diperlukan tepat 2 argumen!"))
    ELSE
    LET x0 == PyIndex(args, 0) IN
    IF x0.exc # "none" THEN CalcExcept(x0)
    ELSE
    LET a == PyFloat(x0.val) IN
    IF a.exc # "none" THEN CalcExcept(a)
    ELSE
    LET b == PyFloat(PyIndex(args, 1).val) IN
    IF b.exc # "none" THEN CalcExcept(b)
    ELSE
    LET r == operations_map(operation.s, a.val, b.val) IN
    IF r.exc # "none" THEN CalcExcept(r)
    ELSE Val(Success(FormatResult(r.val)))

\* lines 104-154: the outcome of the call, a returned response in every case

calculate(operation, args) ==
    LET n == PyLen(args) IN
    IF n.exc # "none" THEN CalcExcept(n)
    ELSE IF n.val # 2 THEN Val(Failure("Diperlukan tepat 2 argumen!"))
    ELSE
    LET x0 == PyIndex(args, 0) IN
    IF x0.exc # "none" THEN CalcExcept(x0)
    ELSE
    LET a == PyFloat(x0.val) IN
    IF a.exc # "none" THEN CalcExcept(a)
    ELSE
    LET b == PyFloat(PyIndex(args, 1).val) IN
    IF b.exc # "none" THEN CalcExcept(b)
    ELSE IF ~Hashable(operation)
         THEN CalcExcept(Raise("TypeError", "unhashable type"))
    ELSE IF operation.t # "str" \/ operation.s \notin OperationNames
         THEN Val(Failure("Operasi '" \o PyStr(operation) \o "' tidak dikenal!"))
    ELSE
    LET r == operations_map(operation.s, a.val, b.val) IN
    IF r.exc # "none" THEN CalcExcept(r)
    ELSE Val(Success(FormatResult(r.val)))


(*************************************************************************)
(* The bytes of one message on the wire, by what the handler's decoding  *)
(* makes of them.                                                        *)
(*************************************************************************)
\* bytes that are not valid UTF-8
BadUtf8     == [k |-> "bytes"]
\* UTF-8 text that is not a JSON document
NotJson     == [k |-> "text"]
\* a JSON document, with the value json.loads returns for it
JsonDoc(v)  == [k |-> "json", v |-> v]

Request(op, xs) ==
    JsonDoc(JObj(<<Member("operation", JStr(op)), Member("args", JArr(xs))>>))

\* the messages the peers of the model send
Payloads ==
    { BadUtf8,
      NotJson,
      JsonDoc(JArr(<<JNum(1), JNum(2)>>)),
      Request("add", <<JNum(2), JNum(3)>>),
      Request("div", <<JNum(5), JNum(0)>>),
      Request("pow", <<JNum(2), JNum(3)>>),
      Request("mul", <<JNum(2)>>),
      JsonDoc(JObj(<<Member("operation", JArr(<<>>)), Member("args", JNum(5))>>)) }

\* two messages delivered by one recv: the concatenation of their bytes
Coalesce(p, q) ==
    IF p.k = "bytes" \/ q.k = "bytes" THEN BadUtf8 ELSE NotJson

\* data.decode("utf-8")
Decode(d) ==
    IF d.k = "bytes" THEN Raise("UnicodeDecodeError", "invalid start byte")
    ELSE Val(d)

\* json.loads(request_str)
Loads(d) ==
    IF d.k = "json" THEN Val(d.v)
    ELSE Raise("JSONDecodeError", "Expecting value")


\* RequestGet by subscript, request[key]: a missing key raises
RequestGet_subscript(request, key, default) ==
    IF request.t # "obj"
    THEN Raise("TypeError", "indices must be integers")
    ELSE IF key \in DictKeys(request.members)
         THEN Val(DictGet(request.members, key, default))
         ELSE Raise("KeyError", key)

\* request.get(key, default): only a dict has the method
RequestGet(request, key, default) ==
    IF request.t = "obj" THEN Val(DictGet(request.members, key, default))
    ELSE Raise("AttributeError", "object has no attribute 'get'")

InvalidFormat == Failure("Format request tidak valid (bukan JSON)!")

\* lines 256-276 of _handle_client: from the bytes read to the response
\* to send, or the exception that leaves the loop
HandleRequest(d) ==
    LET request_str == Decode(d) IN
    IF request_str.exc # "none" THEN request_str
    ELSE
    LET request == Loads(request_str.val) IN
    IF request.exc = "JSONDecodeError" THEN Val(InvalidFormat)
    ELSE
    LET operation == RequestGet(request.val, "operation", JStr("")) IN
    IF operation.exc # "none" THEN operation
    ELSE
    LET args == RequestGet(request.val, "args", JArr(<<>>)) IN
    calculate(operation.val, args.val)

(*************************************************************************)
(* State.                                                                *)
(*************************************************************************)
VARIABLES
    \* CalculatorServer
    is_running,      \* self.is_running
    server_socket,   \* self.server_socket: "none", "listening", "closed"
    acc_pc,          \* where start() is: "init", "accept", "spawn",
                     \*   "finally", "returned"
    acc_exc,         \* the exception that ended the accept loop
    client_socket,   \* start()'s local: the socket accept returned (0: none)
    \* the network
    backlog,         \* connections completed and not yet accepted
    peer,            \* per connection, the client end: "new", "open",
                     \*   "closed" (orderly shutdown), "reset"
    inbuf,           \* per connection, messages sent and not yet read
    sent,            \* number of messages the peers have sent
    \* the handler thread started for each connection
    pc,              \* "none", "recv", "process", "send", "finally", "done"
    t_sock,          \* the thread's client_socket argument
    data,            \* the thread's local data
    response,        \* the thread's local response
    exc,             \* the exception that left the thread's loop
    \* the server's end of each connection
    sock,            \* "none", "open", "closed"
    log,             \* per connection, the socket calls made on it, in order
    \* one call of CalculationEngine.calculate
    eng_operation,   \* the operation argument
    eng_args,        \* the args argument
    eng_result,      \* what the call returned or raised; NotCalled before
    \* NetworkClient and the call of send_calculation it is in
    is_connected,    \* self.is_connected
    socket,          \* self.socket: 0 for None, else the number of the socket
    cl_opened,       \* how many sockets connect() has created so far
    cl_pc,           \* "idle", "connect", "send", "recv"
    cl_request,      \* the request of the call
    cl_ret,          \* what the call returned or raised; NotCalled before
    cl_calls,        \* calls of send_calculation made so far
    cl_trace,        \* the socket operations of the call, in order
    cl_wire,         \* per socket, the calls whose request was sent on it
                     \* and that the server has not answered yet
    cl_inbox,        \* per socket, the replies that have arrived on it and
                     \* have not been read, each with the call it answers
    cl_reply_to,     \* the call that the document returned answers; 0 when
                     \* the client made the document itself
    \* calls of CalculatorServer.stop() from outside start()
    stop_calls,      \* how many have been made
    stop_exc,        \* what the last one raised; "none" if nothing
    \* CalculatorUI
    current_input,   \* self.current_input, as the sequence of its characters
    first_operand,   \* self.first_operand; NoOperand for None
    current_operator,\* self.current_operator; "none" for None
    should_reset,    \* self.should_reset
    ui_last          \* the last button press: what it was, the fields
                     \* before it, the request it sent and the response

vars == <<is_running, server_socket, acc_pc, acc_exc, client_socket,
          backlog, peer, inbuf, sent, pc, t_sock, data, response, exc,
          sock, log, eng_operation, eng_args, eng_result,
          is_connected, socket, cl_opened, cl_pc, cl_request, cl_ret,
          cl_calls, cl_trace, cl_wire, cl_inbox, cl_reply_to,
          stop_calls, stop_exc,
          current_input, first_operand, current_operator, should_reset,
          ui_last>>

engine_vars   == <<eng_operation, eng_args, eng_result>>
client_vars   == <<is_connected, socket, cl_opened, cl_pc, cl_request, cl_ret,
                   cl_calls, cl_trace, cl_wire, cl_inbox, cl_reply_to>>
\* the client's connections as the other end sees them
wire_vars     == <<cl_wire, cl_inbox>>
\* what the server's steps leave alone
caller_vars   == <<stop_calls, stop_exc>>
ui_vars       == <<current_input, first_operand, current_operator, should_reset,
                   ui_last>>
other_vars    == <<engine_vars, client_vars, caller_vars, ui_vars>>
server_vars   == <<is_running, server_socket, acc_pc, acc_exc, client_socket,
                   backlog, peer, inbuf, sent, pc, t_sock, data, response,
                   exc, sock, log, caller_vars>>

acceptor_vars == <<is_running, server_socket, acc_pc, acc_exc, client_socket>>
net_vars      == <<backlog, peer, inbuf, sent>>
thread_vars   == <<pc, t_sock, data, response, exc>>

NoData     == [k |-> "none"]
NoResponse == [status |-> "none"]
NotCalled  == [exc |-> "not called"]

\* the server after CalculatorServer()
ServerInit ==
    /\ is_running = FALSE
    /\ server_socket = "none"
    /\ acc_pc = "init"
    /\ acc_exc = "none"
    /\ client_socket = 0
    /\ backlog = <<>>
    /\ peer = [c \in Conns |-> "new"]
    /\ inbuf = [c \in Conns |-> <<>>]
    /\ sent = 0
    /\ pc = [c \in Conns |-> "none"]
    /\ t_sock = [c \in Conns |-> 0]
    /\ data = [c \in Conns |-> NoData]
    /\ response = [c \in Conns |-> NoResponse]
    /\ exc = [c \in Conns |-> "none"]
    /\ sock = [c \in Conns |-> "none"]
    /\ log = [c \in Conns |-> <<>>]
    /\ stop_calls = 0
    /\ stop_exc = "none"

\* no call of the engine is being looked at
EngineIdle ==
    /\ eng_operation = JStr("")
    /\ eng_args = JArr(<<>>)
    /\ eng_result = NotCalled

\* NetworkClient(): no socket, not connected, no call made
ClientIdle ==
    /\ is_connected = FALSE
    /\ socket = 0
    /\ cl_opened = 0
    /\ cl_pc = "idle"
    /\ cl_request = NoData
    /\ cl_ret = NotCalled
    /\ cl_calls = 0
    /\ cl_trace = <<>>
    /\ cl_wire = [s \in Sockets |-> <<>>]
    /\ cl_inbox = [s \in Sockets |-> <<>>]
    /\ cl_reply_to = 0

NoOperand == [t |-> "none"]
NoPress   == [text |-> "none"]

\* CalculatorUI(client): lines 180-184
UiIdle ==
    /\ current_input = <<>>
    /\ first_operand = NoOperand
    /\ current_operator = "none"
    /\ should_reset = FALSE
    /\ ui_last = NoPress

Init == ServerInit /\ EngineIdle /\ ClientIdle /\ UiIdle

(*************************************************************************)
(* The peers.                                                            *)
(*************************************************************************)
\* a client completes a connection; it waits in the listen backlog
PeerConnect(c) ==
    /\ peer[c] = "new"
    /\ server_socket = "listening"
    /\ Len(backlog) < Backlog
    /\ peer' = [peer EXCEPT ![c] = "open"]
    /\ backlog' = Append(backlog, c)
    /\ UNCHANGED <<other_vars, acceptor_vars, inbuf, sent, thread_vars, sock, log>>

PeerSend(c, p) ==
    /\ peer[c] = "open"
    /\ sent < MaxSends
    /\ inbuf' = [inbuf EXCEPT ![c] = Append(@, p)]
    /\ sent' = sent + 1
    /\ UNCHANGED <<other_vars, acceptor_vars, backlog, peer, thread_vars, sock, log>>

\* orderly shutdown: what was sent is still delivered, then end of stream
PeerClose(c) ==
    /\ peer[c] = "open"
    /\ peer' = [peer EXCEPT ![c] = "closed"]
    /\ UNCHANGED <<other_vars, acceptor_vars, backlog, inbuf, sent, thread_vars, sock, log>>

\* the connection is reset: what was in flight is lost
PeerReset(c) ==
    /\ peer[c] = "open"
    /\ peer' = [peer EXCEPT ![c] = "reset"]
    /\ inbuf' = [inbuf EXCEPT ![c] = <<>>]
    /\ UNCHANGED <<other_vars, acceptor_vars, backlog, sent, thread_vars, sock, log>>

(*************************************************************************)
(* CalculatorServer.start and stop.                                      *)
(*************************************************************************)
\* lines 189-199: socket, setsockopt, bind, listen
start_listen ==
    /\ acc_pc = "init"
    /\ server_socket' = "listening"
    /\ is_running' = TRUE
    /\ acc_pc' = "accept"
    /\ UNCHANGED <<other_vars, acc_exc, client_socket, net_vars, thread_vars, sock, log>>

\* start_accept of a loop that calls _handle_client itself instead of
\* starting a thread: it comes back to accept only when every handler it
\* called has returned
start_accept_serial ==
    /\ acc_pc = "accept"
    /\ is_running
    /\ backlog # <<>>
    /\ \A t \in Conns : pc[t] \in {"none", "done"}
    /\ client_socket' = Head(backlog)
    /\ backlog' = Tail(backlog)
    /\ sock' = [sock EXCEPT ![Head(backlog)] = "open"]
    /\ acc_pc' = "spawn"
    /\ UNCHANGED <<other_vars, is_running, server_socket, acc_exc, peer, inbuf, sent,
                   thread_vars, log>>

\* line 212: accept returns the oldest completed connection
start_accept ==
    /\ acc_pc = "accept"
    /\ is_running
    /\ backlog # <<>>
    /\ client_socket' = Head(backlog)
    /\ backlog' = Tail(backlog)
    /\ sock' = [sock EXCEPT ![Head(backlog)] = "open"]
    /\ acc_pc' = "spawn"
    /\ UNCHANGED <<other_vars, is_running, server_socket, acc_exc, peer, inbuf, sent,
                   thread_vars, log>>

\* lines 216-221: a new thread runs _handle_client(client_socket, ...)
start_spawn ==
    /\ acc_pc = "spawn"
    /\ pc' = [pc EXCEPT ![client_socket] = "recv"]
    /\ t_sock' = [t_sock EXCEPT ![client_socket] = client_socket]
    /\ acc_pc' = "accept"
    /\ UNCHANGED <<other_vars, is_running, server_socket, acc_exc, client_socket,
                   net_vars, data, response, exc, sock, log>>

\* line 223: Ctrl+C anywhere in the try block
start_interrupt ==
    /\ acc_pc \in {"accept", "spawn"}
    /\ acc_exc' = "KeyboardInterrupt"
    /\ acc_pc' = "finally"
    /\ UNCHANGED <<other_vars, is_running, server_socket, client_socket, net_vars,
                   thread_vars, sock, log>>

\* line 212: accept raises; no except clause of start() names OSError
start_accept_error ==
    /\ acc_pc = "accept"
    /\ acc_exc' = "OSError"
    /\ acc_pc' = "finally"
    /\ UNCHANGED <<other_vars, is_running, server_socket, client_socket, net_vars,
                   thread_vars, sock, log>>

\* stop() that clears the flag and leaves the listening socket open
stop_keep_socket ==
    /\ acc_pc = "finally"
    /\ is_running' = FALSE
    /\ acc_pc' = "returned"
    /\ UNCHANGED <<other_vars, server_socket, acc_exc, client_socket, net_vars,
                   thread_vars, sock, log>>

\* lines 225-235: finally: self.stop()
stop ==
    /\ acc_pc = "finally"
    /\ is_running' = FALSE
    /\ server_socket' = IF server_socket = "none" THEN "none" ELSE "closed"
    /\ acc_pc' = "returned"
    /\ UNCHANGED <<other_vars, acc_exc, client_socket, net_vars, thread_vars, sock, log>>

(*************************************************************************)
(* CalculatorServer._handle_client, run by thread t.                     *)
(*************************************************************************)
\* SocketOf reading a socket kept in one place for all threads (the one
\* accept returned last) instead of the thread's own argument
SocketOf_shared(t) == client_socket

\* the socket the thread works on: its client_socket argument
SocketOf(t) == t_sock[t]

LogRecv(t, d)  == [op |-> "recv", by |-> t, data |-> d]
LogEof(t)      == [op |-> "recv_eof", by |-> t]
LogRecvErr(t)  == [op |-> "recv_err", by |-> t]
LogSend(t, r)  == [op |-> "send", by |-> t, doc |-> r]
LogSendErr(t)  == [op |-> "send_err", by |-> t]
LogClose(t)    == [op |-> "close", by |-> t]

\* line 249: recv returns one message, or two that arrived together
handle_client_recv(t) ==
    LET s == SocketOf(t) IN
    /\ pc[t] = "recv"
    /\ peer[s] # "reset"
    /\ inbuf[s] # <<>>
    /\ \E n \in 1..2 :
         /\ n <= Len(inbuf[s])
         /\ LET d == IF n = 1 THEN inbuf[s][1]
                     ELSE Coalesce(inbuf[s][1], inbuf[s][2])
            IN  /\ data' = [data EXCEPT ![t] = d]
                /\ log' = [log EXCEPT ![s] = Append(@, LogRecv(t, d))]
         /\ inbuf' = [inbuf EXCEPT ![s] = SubSeq(@, n + 1, Len(@))]
    /\ pc' = [pc EXCEPT ![t] = "process"]
    /\ UNCHANGED <<other_vars, acceptor_vars, backlog, peer, sent, t_sock, response,
                   exc, sock>>

\* handle_client_recv_eof without the break: the empty data is processed
handle_client_recv_eof_nobreak(t) ==
    LET s == SocketOf(t) IN
    /\ pc[t] = "recv"
    /\ peer[s] = "closed"
    /\ inbuf[s] = <<>>
    /\ data' = [data EXCEPT ![t] = NoData]
    /\ log' = [log EXCEPT ![s] = Append(@, LogEof(t))]
    /\ pc' = [pc EXCEPT ![t] = "process"]
    /\ UNCHANGED <<other_vars, acceptor_vars, net_vars, t_sock, response, exc, sock>>

\* lines 249-253: recv returns b"": the peer closed; break
handle_client_recv_eof(t) ==
    LET s == SocketOf(t) IN
    /\ pc[t] = "recv"
    /\ peer[s] = "closed"
    /\ inbuf[s] = <<>>
    /\ data' = [data EXCEPT ![t] = NoData]
    /\ log' = [log EXCEPT ![s] = Append(@, LogEof(t))]
    /\ pc' = [pc EXCEPT ![t] = "finally"]
    /\ UNCHANGED <<other_vars, acceptor_vars, net_vars, t_sock, response, exc, sock>>

\* lines 249, 280: recv raises ConnectionResetError
handle_client_recv_error(t) ==
    LET s == SocketOf(t) IN
    /\ pc[t] = "recv"
    /\ peer[s] = "reset"
    /\ log' = [log EXCEPT ![s] = Append(@, LogRecvErr(t))]
    /\ exc' = [exc EXCEPT ![t] = "ConnectionResetError"]
    /\ pc' = [pc EXCEPT ![t] = "finally"]
    /\ UNCHANGED <<other_vars, acceptor_vars, net_vars, t_sock, data, response, sock>>

\* handle_client_process whose JSONDecodeError branch assigns no response:
\* what the previous iteration left in the local is sent
handle_client_process_stale(t) ==
    /\ pc[t] = "process"
    /\ LET o == HandleRequest(data[t]) IN
         IF o.exc = "none"
         THEN /\ response' = [response EXCEPT ![t] =
                                 IF o.val = InvalidFormat THEN @ ELSE o.val]
              /\ pc' = [pc EXCEPT ![t] = "send"]
              /\ exc' = exc
         ELSE /\ exc' = [exc EXCEPT ![t] = o.exc]
              /\ pc' = [pc EXCEPT ![t] = "finally"]
              /\ response' = response
    /\ UNCHANGED <<other_vars, acceptor_vars, net_vars, t_sock, data, sock, log>>

\* handle_client_process of a handler that keeps the response of its
\* session's first request and gives it to every later one
handle_client_process_cached(t) ==
    /\ pc[t] = "process"
    /\ LET o == IF response[t] # NoResponse THEN Val(response[t])
                ELSE HandleRequest(data[t])
       IN
         IF o.exc = "none"
         THEN /\ response' = [response EXCEPT ![t] = o.val]
              /\ pc' = [pc EXCEPT ![t] = "send"]
              /\ exc' = exc
         ELSE /\ exc' = [exc EXCEPT ![t] = o.exc]
              /\ pc' = [pc EXCEPT ![t] = "finally"]
              /\ response' = response
    /\ UNCHANGED <<other_vars, acceptor_vars, net_vars, t_sock, data, sock, log>>

\* lines 256-276: decode, parse, calculate, encode
handle_client_process(t) ==
    /\ pc[t] = "process"
    /\ LET o == HandleRequest(data[t]) IN
         IF o.exc = "none"
         THEN /\ response' = [response EXCEPT ![t] = o.val]
              /\ pc' = [pc EXCEPT ![t] = "send"]
              /\ exc' = exc
         ELSE /\ exc' = [exc EXCEPT ![t] = o.exc]
              /\ pc' = [pc EXCEPT ![t] = "finally"]
              /\ response' = response
    /\ UNCHANGED <<other_vars, acceptor_vars, net_vars, t_sock, data, sock, log>>

\* line 278: send succeeds
handle_client_send(t) ==
    LET s == SocketOf(t) IN
    /\ pc[t] = "send"
    /\ peer[s] \in {"open", "closed"}
    /\ log' = [log EXCEPT ![s] = Append(@, LogSend(t, response[t]))]
    /\ pc' = [pc EXCEPT ![t] = "recv"]
    /\ UNCHANGED <<other_vars, acceptor_vars, net_vars, t_sock, data, response, exc, sock>>

\* handle_client_send_error with the exception caught inside the loop:
\* the handler goes on to the next recv
handle_client_send_error_continue(t) ==
    LET s == SocketOf(t) IN
    /\ pc[t] = "send"
    /\ peer[s] \in {"closed", "reset"}
    /\ log' = [log EXCEPT ![s] = Append(@, LogSendErr(t))]
    /\ pc' = [pc EXCEPT ![t] = "recv"]
    /\ UNCHANGED <<other_vars, acceptor_vars, net_vars, t_sock, data, response, exc, sock>>

\* lines 278-283: send raises (connection reset, broken pipe)
handle_client_send_error(t) ==
    LET s == SocketOf(t) IN
    /\ pc[t] = "send"
    /\ peer[s] \in {"closed", "reset"}
    /\ \E e \in {"ConnectionResetError", "BrokenPipeError"} :
         /\ (peer[s] = "closed") => (e = "BrokenPipeError")
         /\ exc' = [exc EXCEPT ![t] = e]
    /\ log' = [log EXCEPT ![s] = Append(@, LogSendErr(t))]
    /\ pc' = [pc EXCEPT ![t] = "finally"]
    /\ UNCHANGED <<other_vars, acceptor_vars, net_vars, t_sock, data, response, sock>>

\* handle_client_close with close() at the end of the try block instead of
\* in finally: an exception skips it
handle_client_close_leak(t) ==
    LET s == SocketOf(t) IN
    /\ pc[t] = "finally"
    /\ sock' = [sock EXCEPT ![s] = IF exc[t] = "none" THEN "closed" ELSE @]
    /\ log' = IF exc[t] = "none"
              THEN [log EXCEPT ![s] = Append(@, LogClose(t))]
              ELSE log
    /\ pc' = [pc EXCEPT ![t] = "done"]
    /\ UNCHANGED <<other_vars, acceptor_vars, net_vars, t_sock, data, response, exc>>

\* lines 284-287: finally: client_socket.close()
handle_client_close(t) ==
    LET s == SocketOf(t) IN
    /\ pc[t] = "finally"
    /\ sock' = [sock EXCEPT ![s] = "closed"]
    /\ log' = [log EXCEPT ![s] = Append(@, LogClose(t))]
    /\ pc' = [pc EXCEPT ![t] = "done"]
    /\ UNCHANGED <<other_vars, acceptor_vars, net_vars, t_sock, data, response, exc>>

handle_client(t) ==
    \/ handle_client_recv(t)
    \/ handle_client_recv_eof(t)
    \/ handle_client_recv_error(t)
    \/ handle_client_process(t)
    \/ handle_client_send(t)
    \/ handle_client_send_error(t)
    \/ handle_client_close(t)

\* the steps of the system, the peers sending messages of the set P
NextWith(P) ==
    \/ \E c \in Conns : PeerConnect(c)
    \/ \E c \in Conns, p \in P : PeerSend(c, p)
    \/ \E c \in Conns : PeerClose(c)
    \/ \E c \in Conns : PeerReset(c)
    \/ start_listen
    \/ start_accept
    \/ start_spawn
    \/ start_interrupt
    \/ start_accept_error
    \/ stop
    \/ \E t \in Conns : handle_client(t)

Next == NextWith(Payloads)

Spec == Init /\ [][Next]_vars

\* JSON objects with a key missing
NoArgs      == JsonDoc(JObj(<<Member("operation", JStr("add"))>>))
NoOperation == JsonDoc(JObj(<<Member("args", JArr(<<JNum(2), JNum(3)>>))>>))
NoKeys      == JsonDoc(JObj(<<>>))

\* the server with peers that send such objects, and a complete request
DefaultPayloads ==
    {NoArgs, NoOperation, NoKeys, Request("add", <<JNum(2), JNum(3)>>)}

DefaultsSpec == Init /\ [][NextWith(DefaultPayloads)]_vars

\* the messages of the peers of FairSpec: one that raises in the handler,
\* one that is answered
LivePayloads == {BadUtf8, Request("add", <<JNum(2), JNum(3)>>)}

\* threads run whenever they can: the scheduler starves none of them
FairSpec ==
    /\ Init
    /\ [][NextWith(LivePayloads)]_vars
    /\ \A t \in Conns : WF_vars(handle_client(t))


(*************************************************************************)
(* CalculatorServer.stop() as a method of its own: besides the call in   *)
(* the finally block of start(), whoever holds the server may call it,   *)
(* before start(), while the accept loop runs, or after it has ended.    *)
(*************************************************************************)
\* calls of stop() from outside start() in one behaviour
MaxStops == 3

\* stop() with the close not guarded by `if self.server_socket`
stop_call_unguarded ==
    /\ stop_calls < MaxStops
    /\ stop_calls' = stop_calls + 1
    /\ is_running' = FALSE
    /\ IF server_socket = "none"
       THEN /\ stop_exc' = "AttributeError"
            /\ server_socket' = server_socket
       ELSE /\ stop_exc' = "none"
            /\ server_socket' = "closed"
    /\ UNCHANGED <<engine_vars, client_vars, ui_vars, acc_pc, acc_exc,
                   client_socket, net_vars, thread_vars, sock, log>>

\* lines 228-235, called by another thread or after start() has returned
stop_call ==
    /\ stop_calls < MaxStops
    /\ stop_calls' = stop_calls + 1
    /\ is_running' = FALSE
    /\ server_socket' = IF server_socket = "none" THEN "none" ELSE "closed"
    /\ stop_exc' = "none"
    /\ UNCHANGED <<engine_vars, client_vars, ui_vars, acc_pc, acc_exc,
                   client_socket, net_vars, thread_vars, sock, log>>

\* line 210: the loop condition is false, the try block ends
start_loop_exit ==
    /\ acc_pc = "accept"
    /\ ~is_running
    /\ acc_pc' = "finally"
    /\ UNCHANGED <<other_vars, is_running, server_socket, acc_exc, client_socket,
                   net_vars, thread_vars, sock, log>>

StopNext ==
    \/ stop_call
    \/ start_loop_exit
    \/ \E c \in Conns : PeerConnect(c)
    \/ \E c \in Conns : PeerClose(c)
    \/ start_listen
    \/ start_accept
    \/ start_spawn
    \/ start_interrupt
    \/ start_accept_error
    \/ stop

StopSpec == Init /\ [][StopNext]_vars

(*************************************************************************)
(* One call of CalculationEngine.calculate on its own: the arguments are *)
(* drawn in the initial state and the call is the only step.             *)
(*************************************************************************)
\* numbers are the integers -MaxArg .. MaxArg
MaxArg == 3
\* args lists have up to MaxArgsLen elements
MaxArgsLen == 3

\* what an element of args may be: a number, or something float() takes
\* or refuses
EngElements ==
    {JNum(n) : n \in -MaxArg..MaxArg}
        \cup {JStr("3"), JStr("ab"), JBool(TRUE), JBool(FALSE), JNull}

SeqsUpTo(S, n) == UNION {[1..k -> S] : k \in 0..n}

\* what args may be: a list, or a value json.loads can also produce
EngArgs ==
    {JArr(xs) : xs \in SeqsUpTo(EngElements, MaxArgsLen)}
        \cup {JStr(""), JStr("ab"), JStr("23"), JNum(5), JNull,
              JObj(<<Member("a", JNum(1)), Member("b", JNum(2))>>)}

\* what operation may be: the four names, other strings, other values
EngOperations ==
    {JStr(n) : n \in OperationNames \cup {"pow", "", "ADD"}}
        \cup {JNum(1), JNull, JBool(TRUE), JArr(<<>>)}

EngineInit ==
    /\ ServerInit
    /\ ClientIdle
    /\ UiIdle
    /\ eng_operation \in EngOperations
    /\ eng_args \in EngArgs
    /\ eng_result = NotCalled

\* engine.calculate(operation, args)
engine_calculate ==
    /\ eng_result = NotCalled
    /\ eng_result' = calculate(eng_operation, eng_args)
    /\ UNCHANGED <<eng_operation, eng_args, server_vars, ui_vars, client_vars>>

EngineNext == engine_calculate

EngineSpec == EngineInit /\ [][EngineNext]_vars

(*************************************************************************)
(* NetworkClient (src/client.py): calls of send_calculation, each taken  *)
(* through its socket operations one at a time.  What connect, send and  *)
(* recv do is the environment's choice: they succeed or raise.           *)
(*************************************************************************)
\* recv returned b"": the server closed the connection
EmptyReply == [k |-> "empty"]

\* what recv(4096) may return
Replies ==
    {EmptyReply, BadUtf8, NotJson,
     JsonDoc(Success([t |-> "int", n |-> 5])),
     JsonDoc(Failure("Pembagian dengan nol tidak diperbolehkan!"))}

\* the requests the calls are made for: (operation, a, b)
ClientRequests ==
    {Request("add", <<JNum(2), JNum(3)>>), Request("div", <<JNum(5), JNum(0)>>)}

ConnectFaults == {"timeout", "ConnectionRefusedError", "OSError"}
SendFaults    == {"timeout", "ConnectionResetError", "BrokenPipeError"}
RecvFaults    == {"timeout", "ConnectionResetError"}

CannotConnect ==
    Failure("Tidak dapat terhubung ke server!\nPastikan server sudah berjalan.")

\* the except clauses of send_calculation without the last one: an
\* exception that is neither a timeout nor a reset leaves the method
SendCalcExcept_narrow(o) ==
    CASE o.exc = "timeout" ->
             Val(Failure("Timeout menunggu response dari server!"))
      [] o.exc = "ConnectionResetError" ->
             Val(Failure("Koneksi ke server terputus!"))
      [] OTHER -> o

\* the three except clauses of send_calculation (lines 125-142)
SendCalcExcept(o) ==
    CASE o.exc = "timeout" ->
             Val(Failure("Timeout menunggu response dari server!"))
      [] o.exc = "ConnectionResetError" ->
             Val(Failure("Koneksi ke server terputus!"))
      [] OTHER -> Val(Failure("Terjadi kesalahan: " \o o.msg))

\* json.loads(response_data.decode("utf-8")), line 121
ParseReply(d) ==
    LET text == Decode(d) IN
    IF text.exc # "none" THEN text ELSE Loads(text.val)

CallEvent(c)       == [ev |-> "call", connected |-> c]
ConnectEvent(e)    == [ev |-> "connect", exc |-> e]
SendEvent(e)       == [ev |-> "send", exc |-> e]
RecvEvent(e)       == [ev |-> "recv", exc |-> e]

\* lines 102-103: entry of send_calculation
send_calculation_call(req) ==
    /\ cl_pc = "idle"
    /\ cl_calls < MaxCalls
    /\ cl_calls' = cl_calls + 1
    /\ cl_request' = req
    /\ cl_ret' = NotCalled
    /\ cl_trace' = <<CallEvent(is_connected)>>
    /\ cl_pc' = IF is_connected THEN "send" ELSE "connect"
    /\ cl_reply_to' = 0
    /\ UNCHANGED <<is_connected, socket, cl_opened, wire_vars, server_vars, ui_vars,
                   engine_vars>>

\* lines 59-67: connect() succeeds
connect_ok ==
    /\ cl_pc = "connect"
    /\ socket' = cl_opened + 1
    /\ cl_opened' = cl_opened + 1
    /\ is_connected' = TRUE
    /\ cl_trace' = Append(cl_trace, ConnectEvent("none"))
    /\ cl_pc' = "send"
    /\ UNCHANGED <<cl_request, cl_ret, cl_calls, wire_vars, cl_reply_to,
                   server_vars, ui_vars, engine_vars>>

\* lines 69-77 and 104-108: connect() returns False, the call returns
\* its Failure.  The socket is created before connecting, unless creating
\* it is what failed.
connect_fail(e, created) ==
    /\ cl_pc = "connect"
    /\ (e # "OSError") => created
    /\ socket' = IF created THEN cl_opened + 1 ELSE socket
    /\ cl_opened' = IF created THEN cl_opened + 1 ELSE cl_opened
    /\ cl_trace' = Append(cl_trace, ConnectEvent(e))
    /\ cl_ret' = Val(CannotConnect)
    /\ cl_pc' = "idle"
    /\ UNCHANGED <<is_connected, cl_request, cl_calls, wire_vars, cl_reply_to,
                   server_vars, ui_vars, engine_vars>>

\* line 117: send succeeds; the request is on its way on self.socket
send_ok ==
    /\ cl_pc = "send"
    /\ cl_trace' = Append(cl_trace, SendEvent("none"))
    /\ cl_wire' = [cl_wire EXCEPT ![socket] = Append(@, cl_calls)]
    /\ cl_pc' = "recv"
    /\ UNCHANGED <<is_connected, socket, cl_opened, cl_request, cl_ret, cl_calls,
                   cl_inbox, cl_reply_to, server_vars, ui_vars, engine_vars>>

\* line 117 raises: one of the except clauses returns
send_fail(e) ==
    /\ cl_pc = "send"
    /\ cl_trace' = Append(cl_trace, SendEvent(e))
    /\ is_connected' = FALSE
    /\ cl_ret' = SendCalcExcept(Raise(e, e))
    /\ cl_pc' = "idle"
    /\ UNCHANGED <<socket, cl_opened, cl_request, cl_calls, wire_vars, cl_reply_to,
                   server_vars, ui_vars, engine_vars>>

\* lines 120-123: recv returns bytes; the reply is parsed and returned,
\* or parsing raises and the last except clause returns
recv_ok(reply) ==
    /\ cl_pc = "recv"
    /\ IF reply = EmptyReply
       THEN /\ cl_inbox[socket] = <<>>
            /\ cl_inbox' = cl_inbox
       ELSE /\ cl_inbox[socket] # <<>>
            /\ reply = Head(cl_inbox[socket]).bytes
            /\ cl_inbox' = [cl_inbox EXCEPT ![socket] = Tail(@)]
    /\ LET o == ParseReply(reply) IN
         IF o.exc = "none"
         THEN /\ cl_ret' = o
              /\ cl_trace' = Append(cl_trace, RecvEvent("none"))
              /\ is_connected' = is_connected
              /\ cl_reply_to' = Head(cl_inbox[socket]).re
         ELSE /\ cl_ret' = SendCalcExcept(o)
              /\ cl_trace' = Append(cl_trace, RecvEvent(o.exc))
              /\ is_connected' = FALSE
              /\ cl_reply_to' = 0
    /\ cl_pc' = "idle"
    /\ UNCHANGED <<socket, cl_opened, cl_request, cl_calls, cl_wire, server_vars, ui_vars,
                   engine_vars>>

\* recv_fail whose except clause does not clear is_connected
recv_fail_keep_connected(e) ==
    /\ cl_pc = "recv"
    /\ (e = "timeout") => (cl_inbox[socket] = <<>>)
    /\ cl_trace' = Append(cl_trace, RecvEvent(e))
    /\ cl_ret' = SendCalcExcept(Raise(e, e))
    /\ cl_pc' = "idle"
    /\ UNCHANGED <<is_connected, socket, cl_opened, cl_request, cl_calls, wire_vars,
                   cl_reply_to, server_vars, ui_vars, engine_vars>>

\* line 120 raises: the 5 seconds of settimeout pass with nothing to read,
\* or the connection is reset
recv_fail(e) ==
    /\ cl_pc = "recv"
    /\ (e = "timeout") => (cl_inbox[socket] = <<>>)
    /\ cl_trace' = Append(cl_trace, RecvEvent(e))
    /\ is_connected' = FALSE
    /\ cl_ret' = SendCalcExcept(Raise(e, e))
    /\ cl_pc' = "idle"
    /\ UNCHANGED <<socket, cl_opened, cl_request, cl_calls, wire_vars, cl_reply_to,
                   server_vars, ui_vars, engine_vars>>

\* the other end answers the oldest unanswered request on socket s, at any
\* time, the socket being the client's current one or one it has given up
ReplyItem(bytes, call) == [bytes |-> bytes, re |-> call]

server_reply(s, bytes) ==
    /\ cl_wire[s] # <<>>
    /\ cl_inbox' = [cl_inbox EXCEPT ![s] = Append(@, ReplyItem(bytes, Head(cl_wire[s])))]
    /\ cl_wire' = [cl_wire EXCEPT ![s] = Tail(@)]
    /\ UNCHANGED <<is_connected, socket, cl_opened, cl_pc, cl_request, cl_ret,
                   cl_calls, cl_trace, cl_reply_to, server_vars, ui_vars, engine_vars>>

\* lines 79-85: disconnect(), between calls
disconnect ==
    /\ cl_pc = "idle"
    /\ socket # 0
    /\ is_connected
    /\ is_connected' = FALSE
    /\ UNCHANGED <<socket, cl_opened, cl_pc, cl_request, cl_ret, cl_calls, cl_trace,
                   wire_vars, cl_reply_to, server_vars, ui_vars, engine_vars>>

ClientInit == ServerInit /\ EngineIdle /\ ClientIdle /\ UiIdle

ClientNext ==
    \/ \E req \in ClientRequests : send_calculation_call(req)
    \/ connect_ok
    \/ \E e \in ConnectFaults, created \in BOOLEAN : connect_fail(e, created)
    \/ send_ok
    \/ \E e \in SendFaults : send_fail(e)
    \/ \E reply \in Replies : recv_ok(reply)
    \/ \E e \in RecvFaults : recv_fail(e)
    \/ \E s \in Sockets, bytes \in Replies \ {EmptyReply} : server_reply(s, bytes)
    \/ disconnect

ClientSpec == ClientInit /\ [][ClientNext]_vars

(*************************************************************************)
(* CalculatorUI (src/client.py): the four fields a button press reads    *)
(* and writes.  A press is one step: Tk runs _on_button_click to its end *)
(* before the next event.  current_input is the sequence of its          *)
(* characters.  What client.send_calculation returns is the              *)
(* environment's choice among well-formed responses.                     *)
(*************************************************************************)
\* line 480: at most 12 digits are typed into the input
InputLimit == 12
\* characters the user types into one operand in the behaviours explored
MaxInputLen == 2

DigitButtons    == {"0", "5"}
\* the buttons +, minus sign, multiplication sign, division sign
OperatorButtons == {"+", "-", "*", "/"}
\* "back" is the backspace button, "sign" the plus-minus button
Buttons == DigitButtons \cup OperatorButtons \cup {".", "=", "C", "back", "sign"}

\* operator_map.get(symbol), lines 551-557
operator_map(symbol) ==
    CASE symbol = "+" -> "add"
      [] symbol = "-" -> "sub"
      [] symbol = "*" -> "mul"
      [] symbol = "/" -> "div"
      [] OTHER        -> "none"

DigitChars == <<"0", "1", "2", "3", "4", "5", "6", "7", "8", "9">>

IsDigit(c) == \E i \in 1..10 : DigitChars[i] = c

DigitVal(c) == (CHOOSE i \in 1..10 : DigitChars[i] = c) - 1

DigitChar(d) == DigitChars[d + 1]

\* the number a sequence of digits writes
RECURSIVE MantOf(_)
MantOf(ds) ==
    IF ds = <<>> THEN 0
    ELSE MantOf(SubSeq(ds, 1, Len(ds) - 1)) * 10 + DigitVal(ds[Len(ds)])

\* the float mant / 10^scale, written with the least scale
RECURSIVE PyFloatValue(_, _, _)
PyFloatValue(neg, mant, scale) ==
    IF scale > 0 /\ mant % 10 = 0 THEN PyFloatValue(neg, mant \div 10, scale - 1)
    ELSE [t |-> "pyfloat", neg |-> neg, mant |-> mant, scale |-> scale]

\* float(self.current_input): the text is an optional "-", digits with an
\* optional "." among them, and after a result below 0.0001 an exponent
\* "e-dd"; without a digit in either part it is not a number
FloatOfInput(cs) ==
    LET es     == {i \in 1..Len(cs) : cs[i] = "e"}
        e      == IF es = {} THEN Len(cs) + 1 ELSE CHOOSE i \in es : TRUE
        body   == SubSeq(cs, 1, e - 1)
        expo   == SelectSeq(SubSeq(cs, e + 1, Len(cs)), IsDigit)
        digits == SelectSeq(body, IsDigit)
        dots   == {i \in 1..Len(body) : body[i] = "."}
        scale  == IF dots = {} THEN 0
                  ELSE Len(body) - (CHOOSE i \in dots : TRUE)
    IN  IF digits = <<>> \/ (es # {} /\ expo = <<>>)
        THEN Raise("ValueError", "could not convert string to float")
        ELSE Val(PyFloatValue(cs[1] = "-", MantOf(digits),
                              scale + MantOf(expo)))

\* the decimal digits of n >= 0
RECURSIVE DigitsOf(_)
DigitsOf(n) ==
    IF n < 10 THEN <<DigitChar(n)>>
    ELSE DigitsOf(n \div 10) \o <<DigitChar(n % 10)>>

\* str(result) of a result the server sends: an int, or a float of up to
\* ten decimals, shown without the zeros at its end, and with an exponent
\* when it is below 0.0001 (0.00005 is shown as 5e-05)
StrOfResult(r) ==
    IF r.t = "int"
    THEN (IF r.n < 0 THEN <<"-">> ELSE <<>>) \o DigitsOf(Abs(r.n))
    ELSE LET nonzero == {i \in 1..Len(r.frac) : r.frac[i] # 0}
             k       == IF nonzero = {} THEN 1
                        ELSE CHOOSE i \in nonzero : \A j \in nonzero : j <= i
             j       == IF nonzero = {} THEN 1
                        ELSE CHOOSE i \in nonzero : \A h \in nonzero : i <= h
             sign    == IF r.neg THEN <<"-">> ELSE <<>>
         IN  IF r.ip = 0 /\ j >= 5
             THEN sign \o <<DigitChar(r.frac[j])>>
                      \o (IF k > j THEN <<".">> ELSE <<>>)
                      \o [i \in 1..(k - j) |-> DigitChar(r.frac[j + i])]
                      \o <<"e", "-">>
                      \o (IF j < 10 THEN <<"0">> ELSE <<>>) \o DigitsOf(j)
             ELSE sign \o DigitsOf(r.ip) \o <<".">>
                      \o [i \in 1..k |-> DigitChar(r.frac[i])]

\* what send_calculation may return to the UI
UiResponses ==
    {Success([t |-> "int", n |-> -3]),
     Success([t |-> "float", neg |-> FALSE, ip |-> 0,
              frac |-> <<5, 0, 0, 0, 0, 0, 0, 0, 0, 0>>]),
     Success([t |-> "float", neg |-> FALSE, ip |-> 0,
              frac |-> <<0, 0, 0, 0, 5, 0, 0, 0, 0, 0>>]),
     Failure("Pembagian dengan nol tidak diperbolehkan!")}

\* the four fields as one value
Fields ==
    [ci |-> current_input, fo |-> first_operand, co |-> current_operator,
     sr |-> should_reset]

NoCalc == [ci |-> <<>>, fo |-> NoOperand, co |-> "skipped", sr |-> FALSE]

\* what a method did: the fields it leaves, the requests it sent, and the
\* fields as _calculate_result left them if it got a response
Did(st, requests, calc) == [st |-> st, requests |-> requests, calc |-> calc]

\* AfterResponse that keeps first_operand after a Failure
AfterResponse_keep_operand(st, resp) ==
    IF resp.status = "success"
    THEN [ci |-> StrOfResult(resp.result), fo |-> resp.result, co |-> "none",
          sr |-> TRUE]
    ELSE [ci |-> <<>>, fo |-> st.fo, co |-> "none", sr |-> TRUE]

\* lines 572-592: the response is shown and the fields are set
AfterResponse(st, resp) ==
    IF resp.status = "success"
    THEN [ci |-> StrOfResult(resp.result), fo |-> resp.result, co |-> "none",
          sr |-> TRUE]
    ELSE [ci |-> <<>>, fo |-> NoOperand, co |-> "none", sr |-> TRUE]

\* _calculate_result that asks only for a first operand, not for an
\* operator
calculate_result_operand_only(st, resp) ==
    IF st.fo = NoOperand THEN Did(st, <<>>, NoCalc)
    ELSE
    LET second == IF st.ci # <<>> THEN FloatOfInput(st.ci) ELSE Val(st.fo) IN
    IF second.exc # "none" THEN Did(st, <<>>, NoCalc)
    ELSE
    LET request == [operation |-> operator_map(st.co), a |-> st.fo,
                    b |-> second.val]
        after   == AfterResponse(st, resp)
    IN  Did(after, <<request>>, after)

\* _calculate_result, lines 534-592
calculate_result(st, resp) ==
    IF st.fo = NoOperand \/ st.co = "none" THEN Did(st, <<>>, NoCalc)
    ELSE
    LET second == IF st.ci # <<>> THEN FloatOfInput(st.ci) ELSE Val(st.fo) IN
    IF second.exc # "none" THEN Did(st, <<>>, NoCalc)
    ELSE
    LET request == [operation |-> operator_map(st.co), a |-> st.fo,
                    b |-> second.val]
        after   == AfterResponse(st, resp)
    IN  Did(after, <<request>>, after)

\* the end of _handle_operator, lines 526-532
SetOperator(st, operator) ==
    [(IF st.fo # NoOperand THEN [st EXCEPT !.co = operator] ELSE st)
        EXCEPT !.sr = FALSE]

\* _handle_operator, lines 506-532
handle_operator(st, operator, resp) ==
    IF st.ci = <<>> THEN Did(SetOperator(st, operator), <<>>, NoCalc)
    ELSE
    LET c == IF st.fo # NoOperand /\ st.co # "none"
             THEN calculate_result(st, resp)
             ELSE Did(st, <<>>, NoCalc)
        f == FloatOfInput(c.st.ci)
    IN  IF f.exc # "none" THEN c
        ELSE Did(SetOperator([c.st EXCEPT !.fo = f.val, !.ci = <<>>], operator),
                 c.requests, c.calc)

\* _clear_all, lines 484-493
clear_all == [ci |-> <<>>, fo |-> NoOperand, co |-> "none", sr |-> FALSE]

\* _toggle_sign, lines 495-504
toggle_sign(st) ==
    IF st.ci = <<>> THEN st
    ELSE IF st.ci[1] = "-" THEN [st EXCEPT !.ci = Tail(st.ci)]
    ELSE [st EXCEPT !.ci = <<"-">> \o st.ci]

NotDotOrMinus(c) == c \notin {".", "-"}

\* lines 439-442 and 475-477: a press that types starts from an empty
\* input after a result
AfterReset(st, text) ==
    IF st.sr /\ text \notin ({"C", "="} \cup OperatorButtons)
    THEN [st EXCEPT !.ci = <<>>, !.sr = FALSE]
    ELSE st

\* _on_button_click, lines 432-482
on_button_click(st, text, resp) ==
    LET s == AfterReset(st, text) IN
    CASE text = "C"    -> Did(clear_all, <<>>, NoCalc)
      [] text = "back" ->
             Did([s EXCEPT !.ci = SubSeq(s.ci, 1, Len(s.ci) - 1)], <<>>, NoCalc)
      [] text = "sign" -> Did(toggle_sign(s), <<>>, NoCalc)
      [] text \in OperatorButtons -> handle_operator(s, text, resp)
      [] text = "="    -> calculate_result(s, resp)
      [] text = "."    ->
             IF \E i \in 1..Len(s.ci) : s.ci[i] = "." THEN Did(s, <<>>, NoCalc)
             ELSE Did([s EXCEPT !.ci = (IF s.ci = <<>> THEN <<"0">> ELSE s.ci)
                                         \o <<".">>], <<>>, NoCalc)
      [] OTHER ->
             IF Len(SelectSeq(s.ci, NotDotOrMinus)) < InputLimit
             THEN Did([s EXCEPT !.ci = s.ci \o <<text>>], <<>>, NoCalc)
             ELSE Did(s, <<>>, NoCalc)

\* the user presses a button; a press that sends a request gets resp back
press(text, resp) ==
    /\ (text \in DigitButtons \cup {"."}) =>
           Len(AfterReset(Fields, text).ci) < MaxInputLen
    /\ LET o == on_button_click(Fields, text, resp) IN
         /\ current_input' = o.st.ci
         /\ first_operand' = o.st.fo
         /\ current_operator' = o.st.co
         /\ should_reset' = o.st.sr
         /\ ui_last' = [text |-> text, before |-> Fields,
                        requests |-> o.requests,
                        response |-> IF o.requests = <<>> THEN NoResponse
                                     ELSE resp,
                        calc |-> o.calc]
    /\ UNCHANGED <<server_vars, engine_vars, client_vars>>

UiNext == \E text \in Buttons, resp \in UiResponses : press(text, resp)

UiSpec == Init /\ [][UiNext]_vars

\* FairSpec with the acceptor thread scheduled as well: the thread that
\* runs start() is an ordinary thread, so a step of its loop (accept with
\* a connection pending, Thread.start, the finally block) that stays
\* possible is eventually taken.  A handler waiting in recv for a peer
\* that never sends has no step and may wait forever.
AcceptorFairSpec ==
    /\ FairSpec
    /\ WF_vars(start_accept)
    /\ WF_vars(start_spawn)
    /\ WF_vars(stop)

(*************************************************************************)
(* What the socket log of a connection shows.                            *)
(*************************************************************************)
IsRecv(e) == e.op = "recv"
IsSend(e) == e.op = "send"

\* the reads that returned data, and the responses written, in order
Recvs(c) == SelectSeq(log[c], IsRecv)
Sends(c) == SelectSeq(log[c], IsSend)

\* the number of events of the first i with the given op
CountOp(c, i, op) == Cardinality({j \in 1..i : log[c][j].op = op})

\* event i of connection c is the last one so far
IsLast(c, i) == i = Len(log[c])

\* a request document of the schema: an object with a string operation
\* and an args list of two numbers
WellFormed(v) ==
    /\ v.t = "obj"
    /\ LET op == DictGet(v.members, "operation", JNull)
           xs == DictGet(v.members, "args", JNull)
       IN  /\ op.t = "str"
           /\ xs.t = "arr"
           /\ Len(xs.items) = 2
           /\ \A k \in 1..2 : xs.items[k].t = "num"

(*************************************************************************)
(* C1: within one session the responses are written in the order of the  *)
(* requests: the k-th response written on a connection is the response   *)
(* computed from the k-th request read on it, and at no point have more  *)
(* responses been written than requests read.                            *)
(*************************************************************************)
C1_ResponsesInRequestOrder ==
    \A c \in Conns :
        /\ \A i \in 1..Len(log[c]) :
               CountOp(c, i, "send") <= CountOp(c, i, "recv")
        /\ \A k \in 1..Len(Sends(c)) :
               HandleRequest(Recvs(c)[k].data) = Val(Sends(c)[k].doc)

\* a session has answered two requests with two different responses
C1_Witness ==
    \E c \in Conns :
        /\ Len(Sends(c)) = 2
        /\ Sends(c)[1].doc # Sends(c)[2].doc

(*************************************************************************)
(* C2: every read that returned data is followed on that connection by   *)
(* exactly one write: the next socket call is the send of its response,  *)
(* or a send that faulted; until then the handler is still working on    *)
(* the request.                                                          *)
(*************************************************************************)
C2_EveryReadAnswered ==
    \A c \in Conns : \A i \in 1..Len(log[c]) :
        log[c][i].op = "recv" =>
            IF IsLast(c, i)
            THEN pc[log[c][i].by] \in {"process", "send"}
            ELSE log[c][i + 1].op \in {"send", "send_err"}

(*************************************************************************)
(* C3: bytes that cannot be decoded as a request (not UTF-8, or not      *)
(* JSON) do not close the session: the next socket call after reading    *)
(* them is the send of the fixed invalid-format Failure (or a send that  *)
(* faulted), never the close.                                            *)
(*************************************************************************)
C3_UndecodableKeepsSessionOpen ==
    \A c \in Conns : \A i \in 1..Len(log[c]) :
        (log[c][i].op = "recv" /\ log[c][i].data.k \in {"bytes", "text"}) =>
            /\ pc[log[c][i].by] = "send" /\ IsLast(c, i)
                   => response[log[c][i].by] = InvalidFormat
            /\ IF IsLast(c, i)
               THEN pc[log[c][i].by] \in {"process", "send"}
               ELSE \/ log[c][i + 1] = LogSend(log[c][i].by, InvalidFormat)
                    \/ log[c][i + 1].op = "send_err"

(*************************************************************************)
(* C4: a JSON document that violates the request schema is answered with *)
(* a Failure and the connection stays usable: the next socket call after *)
(* reading it is the send of a Failure (or a send that faulted), never   *)
(* the close.                                                            *)
(*************************************************************************)
C4_SchemaViolationAnswered ==
    \A c \in Conns : \A i \in 1..Len(log[c]) :
        (/\ log[c][i].op = "recv"
         /\ log[c][i].data.k = "json"
         /\ ~WellFormed(log[c][i].data.v)) =>
            IF IsLast(c, i)
            THEN pc[log[c][i].by] \in {"process", "send"}
            ELSE \/ /\ log[c][i + 1].op = "send"
                    /\ log[c][i + 1].doc.status = "error"
                 \/ log[c][i + 1].op = "send_err"

(*************************************************************************)
(* C5: a session leaves its loop only after a zero-byte read or a read   *)
(* or write that faulted: when the handler is closing or has closed, the *)
(* last socket call before the close is one of these, never a read that  *)
(* returned a request.                                                   *)
(*************************************************************************)
C5_ClosedOnlyByPeerOrFault ==
    \A t \in Conns :
        pc[t] \in {"finally", "done"} =>
            LET c == t_sock[t]
                n == IF pc[t] = "done" THEN Len(log[c]) - 1 ELSE Len(log[c])
            IN  /\ n >= 1
                /\ log[c][n].op \in {"recv_eof", "recv_err", "send_err"}

(*************************************************************************)
(* C6: after a zero-byte read the session closes without writing a       *)
(* response for it and makes no further read or write: the only socket   *)
(* call after it is the close, by a handler that has left its loop.      *)
(*************************************************************************)
C6_ZeroReadCloses ==
    \A c \in Conns : \A i \in 1..Len(log[c]) :
        log[c][i].op = "recv_eof" =>
            /\ pc[log[c][i].by] \in {"finally", "done"}
            /\ ~IsLast(c, i) =>
                   /\ i + 1 = Len(log[c])
                   /\ log[c][i + 1].op = "close"

\* a session that answered a request, then read zero bytes and closed
C6_Witness ==
    \E c \in Conns :
        /\ Len(log[c]) = 4
        /\ log[c][2].op = "send"
        /\ log[c][3].op = "recv_eof"
        /\ log[c][4].op = "close"
        /\ sock[c] = "closed"

(*************************************************************************)
(* C7: after a read or write that faulted the session goes straight to   *)
(* Closed: the faulted call is not retried, nothing more is read or      *)
(* written; the only socket call after it is the close.                  *)
(*************************************************************************)
C7_FaultCloses ==
    \A c \in Conns : \A i \in 1..Len(log[c]) :
        log[c][i].op \in {"recv_err", "send_err"} =>
            /\ pc[log[c][i].by] \in {"finally", "done"}
            /\ ~IsLast(c, i) =>
                   /\ i + 1 = Len(log[c])
                   /\ log[c][i + 1].op = "close"

\* one session closed after a faulted read, another after a faulted write
C7_Witness ==
    \E c, d \in Conns :
        /\ pc[c] = "done" /\ pc[d] = "done"
        /\ \E i \in 1..Len(log[c]) : log[c][i].op = "recv_err"
        /\ \E i \in 1..Len(log[d]) : log[d][i].op = "send_err"

(*************************************************************************)
(* C8: however the handler leaves its loop, it closes its client socket: *)
(* a handler that has ended has its socket closed, and a handler that    *)
(* has left the loop eventually has its socket closed.                   *)
(*************************************************************************)
C8_SocketReleased ==
    /\ [](\A t \in Conns : pc[t] = "done" => sock[t_sock[t]] = "closed")
    /\ \A t \in Conns :
           (pc[t] = "finally") ~> (pc[t] = "done" /\ sock[t_sock[t]] = "closed")

\* one handler ended by a connection reset, another by another exception,
\* both with their sockets closed
C8_Witness ==
    \E t, u \in Conns :
        /\ pc[t] = "done" /\ exc[t] = "ConnectionResetError"
        /\ pc[u] = "done" /\ exc[u] \notin {"none", "ConnectionResetError"}
        /\ sock[t_sock[t]] = "closed" /\ sock[t_sock[u]] = "closed"

(*************************************************************************)
(* The domain errors of the engine, told from the request document.      *)
(*************************************************************************)
ReqOp(v)   == DictGet(v.members, "operation", JStr(""))
ReqArgs(v) == DictGet(v.members, "args", JArr(<<>>))

\* an object whose operation is a string and whose args is a list of
\* numbers
IsTypedRequest(d) ==
    /\ d.k = "json"
    /\ d.v.t = "obj"
    /\ ReqOp(d.v).t = "str"
    /\ ReqArgs(d.v).t = "arr"
    /\ \A k \in 1..Len(ReqArgs(d.v).items) : ReqArgs(d.v).items[k].t = "num"

\* the Failure message the request must get if it is a domain error,
\* "" if it is none
DomainError(d) ==
    IF ~IsTypedRequest(d) THEN ""
    ELSE LET op == ReqOp(d.v).s
             xs == ReqArgs(d.v).items
         IN  IF Len(xs) # 2 THEN "Diperlukan tepat 2 argumen!"
             ELSE IF op \notin {"add", "sub", "mul", "div"}
                  THEN "Operasi '" \o op \o "' tidak dikenal!"
             ELSE IF op = "div" /\ xs[2].n = 0
                  THEN "Pembagian dengan nol tidak diperbolehkan!"
             ELSE ""

(*************************************************************************)
(* C9: a domain error (argument count other than 2, unknown operation,   *)
(* division by zero) is answered with its Failure and leaves the session *)
(* open: the socket call after reading such a request is the send of     *)
(* the Failure (or a send that faulted), and after that send the handler *)
(* is back at reading, where the next request is answered as usual.      *)
(*************************************************************************)
C9_DomainErrorKeepsSessionOpen ==
    \A c \in Conns : \A i \in 1..Len(log[c]) :
        (log[c][i].op = "recv" /\ DomainError(log[c][i].data) # "") =>
            LET t == log[c][i].by
                n == Len(log[c])
            IN  /\ i = n => pc[t] \in {"process", "send"}
                /\ i < n =>
                       \/ log[c][i + 1] =
                              LogSend(t, Failure(DomainError(log[c][i].data)))
                       \/ log[c][i + 1].op = "send_err"
                /\ (i + 1 = n /\ log[c][n].op = "send") => pc[t] = "recv"
                /\ (i + 1 < n /\ log[c][i + 1].op = "send") =>
                       /\ log[c][i + 2].op \in {"recv", "recv_eof", "recv_err"}
                       /\ (log[c][i + 2].op = "recv" /\ i + 2 < n
                           /\ HandleRequest(log[c][i + 2].data).exc = "none") =>
                              log[c][i + 3].op \in {"send", "send_err"}

\* a session answered a division by zero with its Failure and then the
\* next request, 2 + 3, with 5
C9_Witness ==
    \E c \in Conns :
        /\ Len(log[c]) >= 4
        /\ log[c][1].op = "recv"
        /\ DomainError(log[c][1].data) = "Pembagian dengan nol tidak diperbolehkan!"
        /\ log[c][2].op = "send"
        /\ log[c][2].doc.status = "error"
        /\ log[c][3].op = "recv"
        /\ log[c][4].op = "send"
        /\ log[c][4].doc = Success([t |-> "int", n |-> 5])

(*************************************************************************)
(* C10: with several sessions running and their requests interleaved, a  *)
(* connection carries only its own session's traffic: every socket call  *)
(* on a connection is made by the handler started for it, and the        *)
(* responses written on it are those of the requests read on it, in      *)
(* that order.                                                           *)
(*************************************************************************)
C10_NoCrossTalk ==
    \A c \in Conns :
        /\ \A i \in 1..Len(log[c]) :
               /\ log[c][i].by = c
               /\ t_sock[log[c][i].by] = c
        /\ \A t \in Conns : (pc[t] # "none") => t_sock[t] = t
        /\ Len(Sends(c)) <= Len(Recvs(c))
        /\ \A k \in 1..Len(Sends(c)) :
               /\ Sends(c)[k].by = Recvs(c)[k].by
               /\ Val(Sends(c)[k].doc) = HandleRequest(Recvs(c)[k].data)

\* two sessions open at the same time, each with its own request answered,
\* the two responses different
C10_Witness ==
    \E c, d \in Conns :
        /\ c # d
        /\ Len(Sends(c)) = 1 /\ Len(Sends(d)) = 1
        /\ Sends(c)[1].doc # Sends(d)[1].doc
        /\ pc[c] = "recv" /\ pc[d] = "recv"
        /\ sock[c] = "open" /\ sock[d] = "open"

(*************************************************************************)
(* C11: a transport error is fatal to the affected session only: once    *)
(* the server has started and unless it was interrupted, the listening   *)
(* socket is open and the acceptor is still in its loop, whatever reset, *)
(* failed write or failed accept has happened.                           *)
(*************************************************************************)
C11_TransportErrorLeavesListener ==
    (acc_pc # "init" /\ acc_exc # "KeyboardInterrupt") =>
        /\ is_running
        /\ server_socket = "listening"
        /\ acc_pc \in {"accept", "spawn"}

\* the part of C11 about sessions: a reset or a failed write in a session
\* (a step of one handler that logs a fault) leaves the acceptor and every
\* other session's thread, socket and log as they were
C11_SessionFaultIsLocal ==
    [][\A t \in Conns :
          (/\ pc[t] \in {"recv", "send"}
           /\ pc'[t] = "finally"
           /\ exc'[t] # "none") =>
              /\ UNCHANGED acceptor_vars
              /\ \A u \in Conns \ {t} :
                    /\ pc'[u] = pc[u]
                    /\ t_sock'[u] = t_sock[u]
                    /\ data'[u] = data[u]
                    /\ response'[u] = response[u]
                    /\ exc'[u] = exc[u]
              /\ \A c \in Conns \ {t_sock[t]} :
                    /\ sock'[c] = sock[c]
                    /\ log'[c] = log[c]
                    /\ inbuf'[c] = inbuf[c]]_vars

Pending(c) == \E i \in 1..Len(backlog) : backlog[i] = c

Blocked(t) ==
    /\ pc[t] = "recv"
    /\ inbuf[t_sock[t]] = <<>>
    /\ peer[t_sock[t]] = "open"

C12_AcceptNeverBlocksOnSessions ==
    /\ \A c \in Conns :
          (Pending(c) /\ is_running) ~>
              (pc[c] # "none" \/ acc_pc \in {"finally", "returned"})
    /\ [](\A t \in Conns :
             (pc[t] \in {"process", "send"}) => ENABLED handle_client(t))

\* a session is blocked in its read, its peer silent, and meanwhile the
\* other connection has been accepted and its handler has answered a request
C12_Witness ==
    \E t \in Conns, u \in Conns :
        /\ t # u
        /\ Blocked(t)
        /\ Len(Sends(t_sock[t])) = 0
        /\ acc_pc = "accept"
        /\ pc[u] = "recv"
        /\ Len(Sends(t_sock[u])) >= 1

(*************************************************************************)
(* Reading one call of calculate.                                        *)
(*************************************************************************)
Called == eng_result # NotCalled

Returned == Called /\ eng_result.exc = "none"

\* args is a list, or a string, of n elements
ArgsLen(n) ==
    \/ eng_args.t = "arr" /\ Len(eng_args.items) = n
    \/ eng_args.t = "str" /\ Len(eng_args.s) = n

ArityMessage == "Diperlukan tepat 2 argumen!"

(*************************************************************************)
(* C14: calculate with an args sequence of 0, 1, 3 or more elements      *)
(* returns the Failure with the exactly-2-arguments message and does not *)
(* raise, whatever the operation is, one of the four names or not, a     *)
(* string or not, and whatever the elements are.                         *)
(*************************************************************************)
C14_ArityFailure ==
    (Called /\ \E n \in (0..(MaxArgsLen + 1)) \ {2} : ArgsLen(n)) =>
        /\ eng_result.exc = "none"
        /\ eng_result.val = [status |-> "error", message |-> ArityMessage]

\* calls that returned the arity Failure: an unknown operation with three
\* elements none of which is a number
C14_Witness ==
    /\ Called
    /\ eng_operation = JStr("pow")
    /\ eng_args = JArr(<<JNull, JStr("ab"), JNull>>)
    /\ eng_result = Val([status |-> "error", message |-> ArityMessage])

(*************************************************************************)
(* C15 as stated: for any operation that is not one of the four names,   *)
(* calculate returns a Failure whose message names that operation, and   *)
(* does not raise.                                                       *)
(*************************************************************************)
Unrecognized ==
    ~(eng_operation.t = "str" /\ eng_operation.s \in {"add", "sub", "mul", "div"})

\* the message that names the operation
UnknownMessage == "Operasi '" \o PyStr(eng_operation) \o "' tidak dikenal!"

\* args is a list of two numbers
TwoNumbers ==
    /\ eng_args.t = "arr"
    /\ Len(eng_args.items) = 2
    /\ \A i \in 1..2 : eng_args.items[i].t = "num"

C15_UnknownOperationNamed ==
    (Called /\ Unrecognized) =>
        /\ eng_result.exc = "none"
        /\ eng_result.val = [status |-> "error", message |-> UnknownMessage]

(*************************************************************************)
(* C15 as the code has it: for an operation that is a string, number,    *)
(* boolean or null and not one of the four names, calculate on a list of *)
(* two numbers returns the Failure whose message names the operation;    *)
(* on any args at all, and for a list given as operation too, it returns *)
(* a Failure and does not raise.  With another number of arguments the   *)
(* Failure is the arity one, with an argument float() refuses it is the  *)
(* conversion's message: both are looked at before the operation.        *)
(*************************************************************************)
C15_UnknownOperationFails ==
    (Called /\ Unrecognized) =>
        /\ eng_result.exc = "none"
        /\ eng_result.val.status = "error"
        /\ (TwoNumbers /\ eng_operation.t # "arr") =>
              eng_result.val = [status |-> "error", message |-> UnknownMessage]

\* a call with an unknown operation name and two numbers has returned the
\* Failure that names it
C15_Witness ==
    /\ Called
    /\ eng_operation = JStr("pow")
    /\ eng_args = JArr(<<JNum(2), JNum(3)>>)
    /\ eng_result = Val([status |-> "error",
                         message |-> "Operasi 'pow' tidak dikenal!"])

(*************************************************************************)
(* Reading the result of a call on two integers.                         *)
(*************************************************************************)
ArgA == eng_args.items[1].n
ArgB == eng_args.items[2].n

OpIs(name) == eng_operation = JStr(name)

DivByZeroMessage == "Pembagian dengan nol tidak diperbolehkan!"

\* r, written with ten decimals, is n/d to within half a unit of the tenth
\* decimal; n >= 0, d > 0.  e is what is left of n/d, as a numerator over
\* d, after the integer part and the decimals read so far have been taken
\* off and the rest scaled up; it stays within d of zero when the decimals
\* are those of n/d rounded, and grows beyond otherwise.
RECURSIVE WithinHalfUnit(_, _, _)
WithinHalfUnit(e, d, decimals) ==
    IF Abs(e) > d THEN FALSE
    ELSE IF decimals = <<>> THEN 2 * Abs(e) <= d
    ELSE WithinHalfUnit(10 * e - Head(decimals) * d, d, Tail(decimals))

\* the decimals of r are those of n/d exactly, nothing left over
RECURSIVE ExactDecimals(_, _, _)
ExactDecimals(e, d, decimals) ==
    IF e < 0 \/ e > d THEN FALSE
    ELSE IF decimals = <<>> THEN e = 0
    ELSE ExactDecimals(10 * e - Head(decimals) * d, d, Tail(decimals))

\* result r is the integer n/d, d # 0
IsIntegerQuotient(r, n, d) == r.t = "int" /\ r.n * d = n

\* result r is n/d rounded to ten decimals, d # 0, n/d not an integer
IsRoundedQuotient(r, n, d) ==
    /\ r.t = "float"
    /\ Len(r.frac) = 10
    /\ \A i \in 1..10 : r.frac[i] \in 0..9
    /\ r.neg = ((n < 0) # (d < 0))
    /\ r.ip >= 0
    /\ WithinHalfUnit(Abs(n) - r.ip * Abs(d), Abs(d), r.frac)

\* result r is n/d: the integer when n/d is one, else n/d to ten decimals
IsQuotient(r, n, d) ==
    IF Abs(n) % Abs(d) = 0 THEN IsIntegerQuotient(r, n, d) ELSE IsRoundedQuotient(r, n, d)

ValidCall ==
    /\ Called
    /\ TwoNumbers
    /\ \E name \in {"add", "sub", "mul", "div"} : OpIs(name)
    /\ OpIs("div") => ArgB # 0

IsSuccess ==
    /\ eng_result.exc = "none"
    /\ DOMAIN eng_result.val = {"status", "result"}
    /\ eng_result.val.status = "success"

\* result r is the integer k
IsInteger(r, k) == r.t = "int" /\ r.n = k

\* result r is n/d with nothing lost: the integer, or decimals that stop
IsExactQuotient(r, n, d) ==
    IF Abs(n) % Abs(d) = 0 THEN IsIntegerQuotient(r, n, d)
    ELSE /\ r.t = "float"
         /\ r.neg = ((n < 0) # (d < 0))
         /\ ExactDecimals(Abs(n) - r.ip * Abs(d), Abs(d), r.frac)

C17_ExactOutcome ==
    ValidCall =>
        /\ IsSuccess
        /\ OpIs("add") => IsInteger(eng_result.val.result, ArgA + ArgB)
        /\ OpIs("sub") => IsInteger(eng_result.val.result, ArgA - ArgB)
        /\ OpIs("mul") => IsInteger(eng_result.val.result, ArgA * ArgB)
        /\ OpIs("div") => IsExactQuotient(eng_result.val.result, ArgA, ArgB)

(*************************************************************************)
(* C17 as the code has it: for an operation among add, sub, mul, div and *)
(* two integer arguments (the second not zero for div), calculate        *)
(* returns Success whose result is a+b, a-b, a*b exactly, and for div    *)
(* the integer a/b when b divides a and otherwise a/b rounded to ten     *)
(* decimals (within half a unit of the tenth decimal).                   *)
(*************************************************************************)
C17_OutcomeToTenDecimals ==
    ValidCall =>
        /\ IsSuccess
        /\ OpIs("add") => IsInteger(eng_result.val.result, ArgA + ArgB)
        /\ OpIs("sub") => IsInteger(eng_result.val.result, ArgA - ArgB)
        /\ OpIs("mul") => IsInteger(eng_result.val.result, ArgA * ArgB)
        /\ OpIs("div") => IsQuotient(eng_result.val.result, ArgA, ArgB)

\* -2 / 3 has returned Success with -0.6666666667
C17_Witness ==
    /\ Called
    /\ OpIs("div")
    /\ eng_args = JArr(<<JNum(-2), JNum(3)>>)
    /\ eng_result = Val([status |-> "success",
                         result |-> [t |-> "float", neg |-> TRUE, ip |-> 0,
                                     frac |-> <<6, 6, 6, 6, 6, 6, 6, 6, 6, 7>>]])

(*************************************************************************)
(* C18: every response the server writes is exactly one variant: status  *)
(* "success" with a result and no message, or status "error" with a      *)
(* message and no result; no other status and no other field.            *)
(*************************************************************************)
IsSuccessDoc(r) == DOMAIN r = {"status", "result"} /\ r.status = "success"

IsFailureDoc(r) == DOMAIN r = {"status", "message"} /\ r.status = "error"

C18_OneVariantPerResponse ==
    \A c \in Conns : \A i \in 1..Len(log[c]) :
        IsSend(log[c][i]) =>
            /\ IsSuccessDoc(log[c][i].doc) \/ IsFailureDoc(log[c][i].doc)
            /\ ~(IsSuccessDoc(log[c][i].doc) /\ IsFailureDoc(log[c][i].doc))

\* one session has been sent a Success and then a Failure
C18_Witness ==
    \E c \in Conns :
        /\ Len(Sends(c)) = 2
        /\ IsSuccessDoc(Sends(c)[1].doc)
        /\ IsFailureDoc(Sends(c)[2].doc)

(*************************************************************************)
(* C19: the response to a request is a function of that request's bytes  *)
(* alone.  Every response written, in whatever session and after        *)
(* whatever earlier requests, is the one HandleRequest gives for the     *)
(* bytes of the read just before it, and HandleRequest reads no state;   *)
(* so any two answered requests with the same bytes, in one session or   *)
(* in two, in one run or in two, have the same response.                 *)
(*************************************************************************)
\* the i-th socket call on c is a send that answers the read before it
Answers(c, i) ==
    /\ i \in 2..Len(log[c])
    /\ IsSend(log[c][i])
    /\ IsRecv(log[c][i - 1])

C19_ResponseDependsOnRequestOnly ==
    /\ \A c \in Conns : \A i \in 1..Len(log[c]) :
          IsSend(log[c][i]) =>
              /\ Answers(c, i)
              /\ Val(log[c][i].doc) = HandleRequest(log[c][i - 1].data)
    /\ \A c1 \in Conns, c2 \in Conns :
          \A i \in 1..Len(log[c1]), j \in 1..Len(log[c2]) :
              (/\ Answers(c1, i)
               /\ Answers(c2, j)
               /\ log[c1][i - 1].data = log[c2][j - 1].data) =>
                  log[c1][i].doc = log[c2][j].doc

\* a request answered second in its session, after a different request
\* that was answered with a different response, while the other session
\* is open too
C19_Witness ==
    \E c \in Conns, u \in Conns :
        /\ c # u
        /\ sock[u] = "open"
        /\ Len(log[c]) >= 4
        /\ Answers(c, 2)
        /\ Answers(c, 4)
        /\ log[c][1].data # log[c][3].data
        /\ log[c][2].doc # log[c][4].doc
        /\ log[c][4].doc = [status |-> "success", result |-> [t |-> "int", n |-> 5]]

(*************************************************************************)
(* C20: send_calculation connects lazily, returns a Failure of its own   *)
(* on every transport fault and never raises, and after a fault in send  *)
(* or receive leaves is_connected false.  A call connects if and only if *)
(* the client was not connected when it began, on a socket no earlier    *)
(* call used; it sends and receives only while connected; a call that    *)
(* ended in a failed connect, send or receive, or in a reply that is     *)
(* empty or cannot be decoded, has returned the Failure for that fault.  *)
(*************************************************************************)
CallOver == cl_pc = "idle" /\ cl_calls > 0

LastEvent == cl_trace[Len(cl_trace)]

Connects == {i \in 1..Len(cl_trace) : cl_trace[i].ev = "connect"}

\* r is the Failure send_calculation returns when operation ev raised e
IsFaultFailure(r, ev, e) ==
    IF ev = "connect"
    THEN r.message = "Tidak dapat terhubung ke server!\nPastikan server sudah berjalan."
    ELSE IF e = "timeout"
         THEN r.message = "Timeout menunggu response dari server!"
    ELSE IF e = "ConnectionResetError"
         THEN r.message = "Koneksi ke server terputus!"
    ELSE r.message \in {"Terjadi kesalahan: " \o m :
                           m \in {"BrokenPipeError", "invalid start byte",
                                  "Expecting value"}}

C20_FaultsReturnFailure ==
    /\ cl_ret.exc \in {"not called", "none"}
    /\ (cl_pc = "connect") => ~is_connected
    /\ (cl_pc \in {"send", "recv"}) => (is_connected /\ socket = cl_opened /\ socket > 0)
    /\ (cl_calls > 0) =>
          /\ cl_trace[1].ev = "call"
          /\ IF cl_trace[1].connected
             THEN Connects = {}
             ELSE Connects = {2} \/ (cl_pc = "connect" /\ Connects = {})
    /\ CallOver =>
          /\ cl_ret.exc = "none"
          /\ (LastEvent.exc # "none") =>
                /\ IsFailureDoc(cl_ret.val)
                /\ IsFaultFailure(cl_ret.val, LastEvent.ev, LastEvent.exc)
                /\ ~is_connected
          /\ (LastEvent.exc = "none") => (LastEvent.ev = "recv")

\* the second call has ended in an empty reply: it connected afresh, the
\* first call having faulted, returned a Failure and left the client
\* unconnected
C20_Witness ==
    /\ CallOver
    /\ cl_calls = 2
    /\ socket = 2
    /\ cl_trace = <<CallEvent(FALSE), ConnectEvent("none"), SendEvent("none"),
                    RecvEvent("JSONDecodeError")>>
    /\ cl_ret = Val([status |-> "error",
                     message |-> "Terjadi kesalahan: Expecting value"])
    /\ ~is_connected

(*************************************************************************)
(* C21: calculate is total: for every operation and every args, of the   *)
(* wrong type, with elements that are not numbers, not a sequence at     *)
(* all, or the defaults a missing key gives, the call returns a Success  *)
(* or a Failure and raises nothing.                                      *)
(*************************************************************************)
C21_CalculateTotal ==
    Called =>
        /\ eng_result.exc = "none"
        /\ IsSuccessDoc(eng_result.val) \/ IsFailureDoc(eng_result.val)

\* a call whose args is a number, not a sequence, and whose operation is a
\* list has returned the Failure of the general except clause
C21_Witness ==
    /\ Called
    /\ eng_operation = JArr(<<>>)
    /\ eng_args = JNum(5)
    /\ eng_result = Val([status |-> "error",
                         message |-> "Terjadi kesalahan: object has no len()"])

(*************************************************************************)
(* C22: every connection accept has returned gets a session handler: a   *)
(* connection whose socket exists has its handler thread started, or the *)
(* acceptor is at the statement that starts it, in every execution, the  *)
(* one where the interrupt comes between the two included.               *)
(*************************************************************************)
Accepted(c) == sock[c] # "none"

C22_AcceptedConnectionHasHandler ==
    \A c \in Conns :
        Accepted(c) =>
            \/ pc[c] # "none" /\ t_sock[c] = c
            \/ acc_pc = "spawn" /\ client_socket = c

(*************************************************************************)
(* C23: the bytes of one read are one request: every read that returned  *)
(* bytes produces exactly one write, so that whenever a handler is not   *)
(* in the middle of a request the writes on its connection, those that   *)
(* faulted included, are as many as the reads, however the peer's        *)
(* messages were joined or cut into reads.                               *)
(*************************************************************************)
Reads(c)  == CountOp(c, Len(log[c]), "recv")
Writes(c) == CountOp(c, Len(log[c]), "send") + CountOp(c, Len(log[c]), "send_err")

Between(t) == pc[t] \in {"recv", "finally", "done"}

C23_OneWritePerRead ==
    \A t \in Conns :
        (Between(t) /\ t_sock[t] # 0) => Writes(t_sock[t]) = Reads(t_sock[t])

\* the same, for connections on which every read returned UTF-8 text that
\* is not JSON or is a JSON object
TextRead(e) ==
    IsRecv(e) => (e.data.k = "text" \/ (e.data.k = "json" /\ e.data.v.t = "obj"))

C23_OneWritePerTextRead ==
    \A t \in Conns :
        (/\ Between(t)
         /\ t_sock[t] # 0
         /\ \A i \in 1..Len(log[t_sock[t]]) : TextRead(log[t_sock[t]][i])) =>
            Writes(t_sock[t]) = Reads(t_sock[t])

(*************************************************************************)
(* C24: the client has at most one request outstanding on a connection,  *)
(* and a document it returns from the server answers the request of the  *)
(* same call.  On the connection the client holds, nothing is unanswered *)
(* or unread between calls and at most the current call's request is     *)
(* during one; a reply that comes late, after the call that asked for it *)
(* timed out, stays on the socket that call gave up and is never         *)
(* returned by a later call.  The other end is taken to write one reply  *)
(* per request, in order.                                                *)
(*************************************************************************)
Outstanding(s) == Len(cl_wire[s]) + Len(cl_inbox[s])

IsObject(d) == d.k = "json" /\ d.v.t = "obj"

Lacks(d, key) == IsObject(d) /\ key \notin DictKeys(d.v.members)

\* the object's "args" is a list of two numbers
HasTwoNumbers(d) ==
    LET xs == DictGet(d.v.members, "args", JNull)
    IN  /\ xs.t = "arr"
        /\ Len(xs.items) = 2
        /\ \A k \in 1..2 : xs.items[k].t = "num"

\* the Failure the claim gives for a request with a key missing; "" if
\* the claim does not speak of the request
DefaultedFailure(d) ==
    IF Lacks(d, "args") THEN "Diperlukan tepat 2 argumen!"
    ELSE IF Lacks(d, "operation") /\ HasTwoNumbers(d)
         THEN "Operasi '' tidak dikenal!"
    ELSE ""

C25_MissingKeyDefaulted ==
    \A c \in Conns : \A i \in 1..Len(log[c]) :
        (log[c][i].op = "recv" /\ DefaultedFailure(log[c][i].data) # "") =>
            LET t == log[c][i].by
                n == Len(log[c])
            IN  /\ i = n => pc[t] \in {"process", "send"}
                /\ i < n =>
                       \/ log[c][i + 1] =
                              [op |-> "send", by |-> t,
                               doc |-> [status |-> "error",
                                        message |-> DefaultedFailure(log[c][i].data)]]
                       \/ log[c][i + 1].op = "send_err"
                /\ (i + 1 = n /\ log[c][n].op = "send") => pc[t] = "recv"
                /\ (i + 1 < n /\ log[c][i + 1].op = "send") =>
                       /\ log[c][i + 2].op \in {"recv", "recv_eof", "recv_err"}
                       /\ (log[c][i + 2].op = "recv" /\ i + 2 < n) =>
                              log[c][i + 3].op \in {"send", "send_err"}

\* one session sent an object without "args" and then one without
\* "operation", and was answered with the arity Failure and then with the
\* unknown-operation Failure
C25_Witness ==
    \E c \in Conns :
        /\ Len(log[c]) = 4
        /\ log[c][1].op = "recv" /\ log[c][1].data = NoArgs
        /\ log[c][2].op = "send"
        /\ log[c][2].doc = [status |-> "error", message |-> "Diperlukan tepat 2 argumen!"]
        /\ log[c][3].op = "recv" /\ log[c][3].data = NoOperation
        /\ log[c][4].op = "send"
        /\ log[c][4].doc = [status |-> "error", message |-> "Operasi '' tidak dikenal!"]
        /\ pc[c] = "recv"
        /\ sock[c] = "open"

(*************************************************************************)
(* C26: stop() is idempotent and safe in any state.  A call raises       *)
(* nothing, leaves is_running false and the listening socket closed if   *)
(* there is one, and touches nothing else; before start(), with no       *)
(* socket, it changes nothing but is_running; on a server already        *)
(* stopped it changes nothing at all.                                    *)
(*************************************************************************)
StopCalled == stop_calls' = stop_calls + 1

C26_StopIdempotent ==
    [][StopCalled =>
          /\ stop_exc' = "none"
          /\ ~is_running'
          /\ server_socket' # "listening"
          /\ (server_socket = "none") = (server_socket' = "none")
          /\ UNCHANGED <<acc_pc, acc_exc, client_socket, backlog, peer, inbuf,
                         sent, pc, t_sock, data, response, exc, sock, log>>
          /\ (acc_pc = "init") => (server_socket' = "none")
          /\ (~is_running /\ server_socket # "listening") =>
                UNCHANGED <<is_running, server_socket>>]_vars

\* stop() has been called three times, the last of them on a server that
\* had started: nothing raised, the flag is false, the socket closed
C26_Witness ==
    /\ stop_calls = 3
    /\ stop_exc = "none"
    /\ acc_pc # "init"
    /\ ~is_running
    /\ server_socket = "closed"


(*************************************************************************)
(* C27, C28: the calculator UI.  ui_last describes the last press: the   *)
(* button, the fields before it, the requests it sent, the response it   *)
(* got, and the fields as _calculate_result left them.                   *)
(*************************************************************************)
Pressed == ui_last.text # "none"

\* both a first operand and an operator are pending in the fields st
BothPending(st) == st.fo # NoOperand /\ st.co # "none"

\* the press asks for a calculation: "=", or an operator pressed with an
\* input typed while an operation is pending (a chained operator press)
AsksCalculation(text, st) ==
    \/ text = "="
    \/ text \in OperatorButtons /\ st.ci # <<>>

\* the input gives _calculate_result a second operand: it is empty (the
\* first operand is taken) or it is the text of a number
HasSecondOperand(st) == st.ci = <<>> \/ FloatOfInput(st.ci).exc = "none"

\* C27 as stated: "=" without a first operand or without a pending
\* operator sends nothing and leaves the four fields unchanged; a request
\* is sent only when both are pending; and every "=" or chained operator
\* press with both pending sends exactly one request.
C27_OneRequestPerCalculation ==
    Pressed =>
        LET b == ui_last.before IN
        /\ (ui_last.text = "=" /\ ~BothPending(b)) =>
               ui_last.requests = <<>> /\ Fields = b
        /\ ui_last.requests # <<>> => BothPending(b)
        /\ (BothPending(b) /\ AsksCalculation(ui_last.text, b)) =>
               Len(ui_last.requests) = 1

\* C27 amended: as above, but a press with both pending sends exactly one
\* request when the input is empty or a number, carrying the pending
\* operation and first operand; when the input is not a number (a lone
\* "-") the press sends nothing and leaves the four fields unchanged.
C27_OneRequestWhenInputIsNumber ==
    Pressed =>
        LET b == ui_last.before IN
        /\ (ui_last.text = "=" /\ ~BothPending(b)) =>
               ui_last.requests = <<>> /\ Fields = b
        /\ ui_last.requests # <<>> =>
               BothPending(b) /\ AsksCalculation(ui_last.text, b)
        /\ (BothPending(b) /\ AsksCalculation(ui_last.text, b)
              /\ HasSecondOperand(b)) =>
               /\ Len(ui_last.requests) = 1
               /\ ui_last.requests[1].operation = operator_map(b.co)
               /\ ui_last.requests[1].a = b.fo
        /\ (BothPending(b) /\ AsksCalculation(ui_last.text, b)
              /\ ~HasSecondOperand(b)) =>
               ui_last.requests = <<>> /\ Fields = b

\* a chained operator press sent its one request
C27_Witness ==
    /\ Pressed
    /\ ui_last.text \in OperatorButtons
    /\ BothPending(ui_last.before)
    /\ ui_last.before.ci # <<>>
    /\ Len(ui_last.requests) = 1


\* the press got a response: _calculate_result completed a calculation
Calculated == Pressed /\ ui_last.requests # <<>>

\* the number a sequence of digit values writes
RECURSIVE NumOf(_)
NumOf(ds) ==
    IF ds = <<>> THEN 0
    ELSE NumOf(SubSeq(ds, 1, Len(ds) - 1)) * 10 + ds[Len(ds)]

RECURSIVE Pow10(_)
Pow10(k) == IF k = 0 THEN 1 ELSE 10 * Pow10(k - 1)

\* the value of a returned result, as the float of the same value
FloatOfResult(r) ==
    IF r.t = "int" THEN PyFloatValue(r.n < 0, Abs(r.n), 0)
    ELSE LET nonzero == {i \in 1..Len(r.frac) : r.frac[i] # 0}
             k       == IF nonzero = {} THEN 0
                        ELSE CHOOSE i \in nonzero : \A j \in nonzero : j <= i
         IN  [t |-> "pyfloat", neg |-> r.neg,
              mant |-> r.ip * Pow10(k) + NumOf(SubSeq(r.frac, 1, k)),
              scale |-> k]

\* first_operand is the number r, as the int or float returned or as the
\* float read back from its text
HoldsResult(operand, r) ==
    \/ operand = r
    \/ operand = FloatOfResult(r)

\* C28 as stated: after every completed calculation current_operator is
\* cleared and should_reset is set; after a Failure first_operand and
\* current_input are cleared as well, so that nothing is pending; after a
\* Success first_operand holds the returned result.
C28_CalculationClearsOperator ==
    Calculated =>
        /\ current_operator = "none"
        /\ should_reset
        /\ ui_last.response.status # "success" =>
               first_operand = NoOperand /\ current_input = <<>>
        /\ ui_last.response.status = "success" =>
               HoldsResult(first_operand, ui_last.response.result)

\* C28 amended: when _calculate_result returns from a completed
\* calculation current_operator is cleared and should_reset is set, after
\* a Failure with first_operand and current_input cleared, after a Success
\* with first_operand the returned result and current_input its text.  A
\* press of "=", and a chained operator press that got a Failure, end in
\* that state.  A chained operator press that got a Success goes on: it
\* ends with first_operand the returned result, current_input empty, the
\* pressed operator pending and should_reset not set.
C28_CalculationOutcome ==
    Calculated =>
        LET r == ui_last.response
            k == ui_last.calc
        IN  /\ k.co = "none" /\ k.sr
            /\ r.status # "success" =>
                   /\ k.fo = NoOperand /\ k.ci = <<>>
                   /\ Fields = k
            /\ r.status = "success" =>
                   /\ k.fo = r.result /\ k.ci = StrOfResult(r.result)
                   /\ ui_last.text = "=" => Fields = k
                   /\ ui_last.text # "=" =>
                          /\ HoldsResult(first_operand, r.result)
                          /\ first_operand.t = "pyfloat"
                          /\ current_input = <<>>
                          /\ current_operator = ui_last.text
                          /\ ~should_reset

\* a chained operator press got a Success and left its operator pending on
\* the returned result
C28_Witness ==
    /\ Calculated
    /\ ui_last.text \in OperatorButtons
    /\ ui_last.response.status = "success"
    /\ current_operator = ui_last.text
    /\ HoldsResult(first_operand, ui_last.response.result)

=============================================================================
